---------------------------- MODULE Spec2Model ----------------------------
(***************************************************************************)
(* A model of sonus/pipeline.py: the feature functions statistics,         *)
(* arg_statistics, fft, column_join and diff.                              *)
(*                                                                         *)
(* One call of one function is one behaviour: Init is the interpreter      *)
(* before the call (nothing written to sys.stdout yet), the first step is  *)
(* the call with its arguments, and the functions that loop over the rows  *)
(* of their input (arg_statistics, fft) take one step per statement group  *)
(* of the loop, so that the order of the progress writes and of the row    *)
(* computations is visible in the behaviour.                               *)
(*                                                                         *)
(* An array is a record [shape, data]: shape is numpy's shape tuple and    *)
(* data holds the elements in row-major order, as numpy's buffer does.     *)
(* Sequences are 1-based as in TLA+; every index the program reports       *)
(* (argmax, argsort, argwhere) is kept 0-based as in Python, and           *)
(* At(row, j) reads the element at a 0-based index.  Element values are    *)
(* integers standing for the reals.                                        *)
(***************************************************************************)
EXTENDS Integers, Sequences, FiniteSets, TLC

VARIABLES
    pc,        \* position: "idle", the loop positions, "done"
    call,      \* the function that was called ("none" before the call)
    args,      \* its arguments
    idx,       \* the loop variable (idx of arg_statistics, i of fft)
    result,    \* the value being built, and at "done" the returned value
    err,       \* "none", or the exception that ended the call
    out,       \* what has been written to sys.stdout, in order
    computed   \* history: the pairs <<row, column name>> computed so far

vars == <<pc, call, args, idx, result, err, out, computed>>

---------------------------------------------------------------------------
(* Bounds of the model. *)

MaxRows == 2
MaxCols == 4
MaxVal == 2

Vals == 0..MaxVal

None == [none |-> TRUE]

---------------------------------------------------------------------------
(* Arrays. *)

At(row, j) == row[j + 1]

RECURSIVE Size(_)
\* the number of elements of an array of the shape
Size(shape) == IF shape = <<>> THEN 1 ELSE Head(shape) * Size(Tail(shape))

RECURSIVE Flatten(_)
Flatten(rows) == IF rows = <<>> THEN <<>> ELSE Head(rows) \o Flatten(Tail(rows))

NRows(M) == M.shape[1]

NCols(M) == M.shape[2]

\* row i (from 1) of a 2D array
Row(M, i) == SubSeq(M.data, (i - 1) * NCols(M) + 1, i * NCols(M))

\* the element at 0-based row i and column j of a 2D array
Cell(M, i, j) == M.data[i * NCols(M) + j + 1]

\* the 2D array of r rows of c elements
Matrix(r, c, rows) == [shape |-> <<r, c>>, data |-> Flatten(rows)]

RowsOfLen(n) == [1..n -> Vals]

Rotate(row, k) ==
    [j \in 1..Len(row) |-> row[((j - 1 + k) % Len(row)) + 1]]

\* A Sample Matrix of r windows of c samples: the first window is any row,
\* window i is the first one rotated i - 1 places.
MatrixOf(r, first) ==
    Matrix(r, Len(first), [i \in 1..r |-> Rotate(first, i - 1)])

SampleMatrices ==
    { MatrixOf(r, first) : r \in 0..MaxRows,
                           first \in UNION { RowsOfLen(n) : n \in 0..MaxCols } }

\* np.zeros(shape=(r, c))
Zeros(r, c) == [shape |-> <<r, c>>, data |-> [p \in 1..(r * c) |-> 0]]

---------------------------------------------------------------------------
(* Row reductions of numpy, as scans over the row. *)

RECURSIVE MaxFrom(_, _, _)
MaxFrom(row, j, best) ==
    IF j > Len(row) THEN best
    ELSE MaxFrom(row, j + 1, IF row[j] > best THEN row[j] ELSE best)

\* ndarray.max over one row
RowMax(row) == MaxFrom(row, 2, row[1])

RECURSIVE MinFrom(_, _, _)
MinFrom(row, j, best) ==
    IF j > Len(row) THEN best
    ELSE MinFrom(row, j + 1, IF row[j] < best THEN row[j] ELSE best)

\* ndarray.min over one row
RowMin(row) == MinFrom(row, 2, row[1])

RECURSIVE ArgMaxLastFrom(_, _, _)
ArgMaxLastFrom(row, j, besti) ==
    IF j > Len(row) - 1 THEN besti
    ELSE ArgMaxLastFrom(row, j + 1,
                        IF At(row, j) >= At(row, besti) THEN j ELSE besti)

RECURSIVE ArgMaxFrom(_, _, _)
ArgMaxFrom(row, j, besti) ==
    IF j > Len(row) - 1 THEN besti
    ELSE ArgMaxFrom(row, j + 1,
                    IF At(row, j) > At(row, besti) THEN j ELSE besti)

ArgMaxLast(row) == ArgMaxLastFrom(row, 1, 0)

\* ndarray.argmax over one row: the scan keeps the earliest maximum
ArgMax(row) == ArgMaxFrom(row, 1, 0)

RECURSIVE ArgMinFrom(_, _, _)
ArgMinFrom(row, j, besti) ==
    IF j > Len(row) - 1 THEN besti
    ELSE ArgMinFrom(row, j + 1,
                    IF At(row, j) < At(row, besti) THEN j ELSE besti)

\* ndarray.argmin over one row: the scan keeps the earliest minimum
ArgMin(row) == ArgMinFrom(row, 1, 0)

---------------------------------------------------------------------------
(* Sorting. *)

RECURSIVE Insert(_, _)
Insert(sorted, v) ==
    IF sorted = <<>> THEN <<v>>
    ELSE IF v < Head(sorted) THEN <<v>> \o sorted
    ELSE <<Head(sorted)>> \o Insert(Tail(sorted), v)

RECURSIVE SortFrom(_, _, _)
SortFrom(row, j, acc) ==
    IF j > Len(row) THEN acc ELSE SortFrom(row, j + 1, Insert(acc, row[j]))

\* the row's values in ascending order (np.percentile sorts the row's values)
Sort(row) == SortFrom(row, 1, <<>>)

\* np.argsort(row) with the default kind='quicksort': a permutation that puts
\* the row in ascending order.  The default kind is not a stable sort, so the
\* order of the indices of equal values is not determined: every sorting
\* permutation is an outcome.  (numpy's introsort sorts partitions of up to 16
\* elements by insertion, so its tie order departs from the stable one only
\* from 18 elements on; rows that long are beyond MaxCols, and the tie order
\* is left open at every length.)
ArgSortOutcomes(row) ==
    { [k \in 1..Len(row) |-> q[k] - 1] :
        q \in { q \in Permutations(1..Len(row)) :
                  \A k \in 1..(Len(row) - 1) : row[q[k]] <= row[q[k + 1]] } }

MedianPositionLow(n) == (n - 1) \div 2

\* len(row) // 2
MedianPosition(n) == n \div 2

---------------------------------------------------------------------------
(* np.percentile(row, q, interpolation='nearest'). *)

\* np.round of num / den for num >= 0, den > 0: halves go to the even integer
RoundHalfEven(num, den) ==
    LET q == num \div den
        r == num % den
    IN  IF 2 * r < den THEN q
        ELSE IF 2 * r > den THEN q + 1
        ELSE IF q % 2 = 0 THEN q ELSE q + 1

\* the 0-based rank q / 100 * (n - 1) rounded to an integer
NearestRank(n, q) == RoundHalfEven(q * (n - 1), 100)

PercentileNearest(row, q) == At(Sort(row), NearestRank(Len(row), q))

RECURSIVE ArgWhereFrom(_, _, _)
ArgWhereFrom(row, v, j) ==
    IF j > Len(row) - 1 THEN <<>>
    ELSE (IF At(row, j) = v THEN <<j>> ELSE <<>>) \o ArgWhereFrom(row, v, j + 1)

\* np.argwhere(row == v): the indices where the row equals v, ascending
ArgWhere(row, v) == ArgWhereFrom(row, v, 0)

LastMatch(row, v) == ArgWhere(row, v)[Len(ArgWhere(row, v))]

\* np.argwhere(row == v)[0]
FirstMatch(row, v) == ArgWhere(row, v)[1]

Percentiles == <<0, 25, 50, 75>>

---------------------------------------------------------------------------
(* statistics(data): the columns max and min.  The columns mean, std, RMS   *)
(* and the linear percentiles are real-valued and are not modelled.        *)

StatisticsRow(row) == <<RowMax(row), RowMin(row)>>

StatisticsOf(M) ==
    Matrix(NRows(M), 2, [i \in 1..NRows(M) |-> StatisticsRow(Row(M, i))])

Statistics ==
    /\ pc = "idle"
    /\ \E M \in SampleMatrices :
        /\ call' = "statistics"
        /\ args' = [data |-> M]
        /\ IF NCols(M) = 0
           THEN \* a reduction over an axis of length 0 has no identity
                /\ err' = "ValueError"
                /\ result' = None
           ELSE /\ err' = "none"
                /\ result' = StatisticsOf(M)
    /\ pc' = "done"
    /\ UNCHANGED <<idx, out, computed>>

---------------------------------------------------------------------------
(* arg_statistics(data). *)

NumArgStats == 7

ProgressOneBased(fn, n, m) == [fn |-> fn, n |-> n + 1, m |-> m, complete |-> FALSE]

\* the text "[-] fn: n of m (p%)" written before row n is worked on
Progress(fn, n, m) == [fn |-> fn, n |-> n, m |-> m, complete |-> FALSE]

\* the text "[-] fn: Completed m (100%)" written after the loop
Completed(fn, m) == [fn |-> fn, n |-> m, m |-> m, complete |-> TRUE]

\* the columns filled for all rows at once before the loop, and those the loop fills
VectorizedColumns == {"argmax", "argmin"}

LoopColumns == {"median", "p0", "p25", "p50", "p75"}

\* result[i, j] = v
SetCell(A, i, j, v) == [A EXCEPT !.data[i * NCols(A) + j + 1] = v]

RECURSIVE SetColumns(_, _, _)
\* result[:, 0] = data.argmax(axis=1); result[:, 1] = data.argmin(axis=1),
\* for the rows from i on
SetColumns(A, M, i) ==
    IF i >= NRows(M) THEN A
    ELSE SetColumns(SetCell(SetCell(A, i, 0, ArgMax(Row(M, i + 1))),
                            i, 1, ArgMin(Row(M, i + 1))),
                    M, i + 1)

VectorizedArgs(M) == SetColumns(Zeros(NRows(M), NumArgStats), M, 0)

ArgStatBegin ==
    /\ pc = "idle"
    /\ \E M \in SampleMatrices :
        /\ call' = "arg_statistics"
        /\ args' = [data |-> M]
        /\ IF NCols(M) = 0
           THEN \* argmax of an empty sequence
                /\ err' = "ValueError"
                /\ result' = None
                /\ pc' = "done"
                /\ computed' = computed
           ELSE /\ err' = "none"
                /\ result' = VectorizedArgs(M)
                /\ pc' = "argstat_loop"
                /\ computed' = { <<i, c>> : i \in 0..(NRows(M) - 1), c \in VectorizedColumns }
    /\ idx' = 0
    /\ UNCHANGED out

ArgStatProgress ==
    /\ pc = "argstat_loop"
    /\ idx < NRows(args.data)
    /\ out' = Append(out, Progress("Arg-Stat", idx, NRows(args.data)))
    /\ pc' = "argstat_row"
    /\ UNCHANGED <<call, args, idx, result, err, computed>>

\* the body of the loop after the progress write, for the row at i, with perm
\* the outcome of np.argsort(row)
ArgStatRowValue(A, i, row, perm) ==
    SetCell(SetCell(SetCell(SetCell(SetCell(A,
        i, 2, perm[MedianPosition(Len(row)) + 1]),
        i, 3, FirstMatch(row, PercentileNearest(row, Percentiles[1]))),
        i, 4, FirstMatch(row, PercentileNearest(row, Percentiles[2]))),
        i, 5, FirstMatch(row, PercentileNearest(row, Percentiles[3]))),
        i, 6, FirstMatch(row, PercentileNearest(row, Percentiles[4])))

ArgStatRow ==
    /\ pc = "argstat_row"
    /\ LET row == Row(args.data, idx + 1)
       IN  \E perm \in ArgSortOutcomes(row) :
               result' = ArgStatRowValue(result, idx, row, perm)
    /\ computed' = computed \cup { <<idx, c>> : c \in LoopColumns }
    /\ idx' = idx + 1
    /\ pc' = "argstat_loop"
    /\ UNCHANGED <<call, args, err, out>>

ArgStatFinish ==
    /\ pc = "argstat_loop"
    /\ idx = NRows(args.data)
    /\ out' = Append(out, Completed("Arg-Stat", NRows(args.data)))
    /\ pc' = "done"
    /\ UNCHANGED <<call, args, idx, result, err, computed>>

---------------------------------------------------------------------------
(* fft(data, low_pass, high_pass, return_x).                               *)
(*                                                                         *)
(* Only the shape of data decides the frequency axis, the mask and the     *)
(* order of the steps, so a call's data is its shape.  A frequency is the  *)
(* exact fraction num / den; the magnitude that scipy.fft yields for bin k *)
(* of row i, scaled by 2 / n_samples, is the symbol [row, bin].            *)

SampleRate == 16000

DefaultLowPass == 20

DefaultHighPass == 20000

MaxFftRows == 2
MaxFftCols == 32

Freqs == {0, DefaultLowPass, 4000, 8000, DefaultHighPass}

WindowValidOrEqual(low_pass, high_pass) == high_pass >= low_pass

\* the condition of the assert of line 89
WindowValid(low_pass, high_pass) == high_pass > low_pass

\* fftfreq(n, 1.0 / SampleRate): 0, 1, ..., (n-1)//2, -(n//2), ..., -1, each
\* times SampleRate / n
FftFreq(n) ==
    [k \in 1..n |->
        [num |-> (IF k - 1 <= (n - 1) \div 2 THEN k - 1 ELSE k - 1 - n) * SampleRate,
         den |-> n]]

HalfLenInclusive(n) == n \div 2 + 1

\* the slice [0:(n_samples // 2)] keeps the first n_samples // 2 entries
HalfLen(n) == n \div 2

FirstHalf(seq, n) == SubSeq(seq, 1, HalfLen(n))

\* low_pass <= x <= high_pass for x = num / den, den > 0
InBand(x, low_pass, high_pass) ==
    /\ low_pass * x.den <= x.num
    /\ x.num <= high_pass * x.den

PassMask(fft_x, low_pass, high_pass) ==
    [k \in 1..Len(fft_x) |-> InBand(fft_x[k], low_pass, high_pass)]

RECURSIVE MaskFrom(_, _, _)
MaskFrom(seq, mask, k) ==
    IF k > Len(seq) THEN <<>>
    ELSE (IF mask[k] THEN <<seq[k]>> ELSE <<>>) \o MaskFrom(seq, mask, k + 1)

\* seq[mask] for a boolean mask of the length of seq
Masked(seq, mask) == MaskFrom(seq, mask, 1)

\* np.divide(np.multiply(np.abs(scipy.fft(row)), 2), n_samples), symbolically
Spectrum(i, n) == [k \in 1..n |-> [row |-> i, bin |-> k - 1]]

\* np.array(rows) of a list of equally long rows
NpArray(rows) ==
    IF Len(rows) = 0 THEN [shape |-> <<0>>, data |-> <<>>]
    ELSE Matrix(Len(rows), Len(rows[1]), rows)

FftBegin ==
    /\ pc = "idle"
    /\ \E r \in 0..MaxFftRows, c \in 0..MaxFftCols,
          low_pass \in Freqs, high_pass \in Freqs, return_x \in BOOLEAN :
        /\ call' = "fft"
        /\ args' = [data |-> [shape |-> <<r, c>>], low_pass |-> low_pass,
                    high_pass |-> high_pass, return_x |-> return_x]
        /\ IF ~WindowValid(low_pass, high_pass)
           THEN /\ err' = "AssertionError"
                /\ result' = None
                /\ pc' = "done"
           ELSE IF c = 0
           THEN \* fftfreq divides 1.0 by n * d
                /\ err' = "ZeroDivisionError"
                /\ result' = None
                /\ pc' = "done"
           ELSE LET fft_x == FirstHalf(FftFreq(c), c)
                    pass_mask == PassMask(fft_x, low_pass, high_pass)
                IN  /\ err' = "none"
                    /\ result' = [fft_x |-> Masked(fft_x, pass_mask),
                                  pass_mask |-> pass_mask,
                                  fft_ys |-> <<>>]
                    /\ pc' = "fft_loop"
    /\ idx' = 0
    /\ UNCHANGED <<out, computed>>

FftProgress ==
    /\ pc = "fft_loop"
    /\ idx < NRows(args.data)
    /\ out' = Append(out, Progress("FFT", idx, NRows(args.data)))
    /\ pc' = "fft_row"
    /\ UNCHANGED <<call, args, idx, result, err, computed>>

FftRowValue(i, n_samples, pass_mask) ==
    Masked(FirstHalf(Spectrum(i, n_samples), n_samples), pass_mask)

FftRow ==
    /\ pc = "fft_row"
    /\ result' = [result EXCEPT !.fft_ys =
                    Append(@, FftRowValue(idx, NCols(args.data), result.pass_mask))]
    /\ computed' = computed \cup { <<idx, "fft_y">> }
    /\ idx' = idx + 1
    /\ pc' = "fft_loop"
    /\ UNCHANGED <<call, args, err, out>>

FftFinish ==
    /\ pc = "fft_loop"
    /\ idx = NRows(args.data)
    /\ out' = Append(out, Completed("FFT", NRows(args.data)))
    /\ result' = IF args.return_x
                 THEN [fft_x |-> [shape |-> <<Len(result.fft_x)>>, data |-> result.fft_x],
                       fft_ys |-> NpArray(result.fft_ys)]
                 ELSE NpArray(result.fft_ys)
    /\ pc' = "done"
    /\ UNCHANGED <<call, args, idx, err, computed>>

---------------------------------------------------------------------------
(* diff(data) = np.diff(data): n = 1, axis = -1. *)

\* a[1:]
Slice1(row) == SubSeq(row, 2, Len(row))

\* a[:-1]
Slice2(row) == SubSeq(row, 1, Len(row) - 1)

Subtract(x, y) == [i \in 1..Len(x) |-> x[i] - y[i]]

DiffLenUnderflow(n) == n - 1

DiffRowReversed(row) == Subtract(Slice2(row), Slice1(row))

\* a[1:] - a[:-1] along the last axis
DiffRow(row) == Subtract(Slice1(row), Slice2(row))

DiffExample == <<1, 3, 6, 10>>

Arrays1D ==
    { [shape |-> <<Len(row)>>, data |-> row] :
        row \in UNION { RowsOfLen(n) : n \in 0..MaxCols } \cup {DiffExample} }

\* the 1D arrays along the last axis of a 1D or 2D array
LastAxisRows(a) ==
    IF Len(a.shape) = 1 THEN <<a.data>> ELSE [i \in 1..NRows(a) |-> Row(a, i)]

\* the length of a[1:] and of a[:-1] for an axis of n elements
DiffLen(n) == IF n = 0 THEN 0 ELSE n - 1

NpDiff(a) ==
    [shape |-> [a.shape EXCEPT ![Len(a.shape)] = DiffLen(@)],
     data |-> Flatten([i \in 1..Len(LastAxisRows(a)) |-> DiffRow(LastAxisRows(a)[i])])]

DiffCall(a) ==
    /\ pc = "idle"
    /\ call' = "diff"
    /\ args' = [data |-> a]
    /\ result' = NpDiff(a)
    /\ err' = "none"
    /\ pc' = "done"
    /\ UNCHANGED <<idx, out, computed>>

Diff1D == \E a \in Arrays1D : DiffCall(a)

Diff2D == \E M \in SampleMatrices : DiffCall(M)

---------------------------------------------------------------------------
(* column_join: the arguments are the arrays to join, in order.            *)
(*                                                                         *)
(* An argument is a record [type, dtype, shape, data].  Joining moves      *)
(* elements and never computes with them, so the element of argument k at  *)
(* the 0-based index tuple ix is the symbol [arg |-> k, at |-> ix].        *)

MaxArgs == 3

\* the shapes of the arguments: row counts, widths and depths
JoinRows == {4, 5}

JoinCols == {2, 3}

JoinDepths == {1, 2}

RECURSIVE Unravel(_, _)
\* the index tuple of the element at row-major position p (from 0)
Unravel(shape, p) ==
    IF shape = <<>> THEN <<>>
    ELSE <<p \div Size(Tail(shape))>> \o Unravel(Tail(shape), p % Size(Tail(shape)))

RECURSIVE Ravel(_, _)
\* the row-major position (from 0) of the element at the index tuple ix
Ravel(shape, ix) ==
    IF shape = <<>> THEN 0
    ELSE Head(ix) * Size(Tail(shape)) + Ravel(Tail(shape), Tail(ix))

ElementAt(a, ix) == a.data[Ravel(a.shape, ix) + 1]

\* what decides an argument: its type, its element type and its shape
Ndarray(dtype, shape) == [type |-> "ndarray", dtype |-> dtype, shape |-> shape]

\* a Python list of lists is a matrix that is not an ndarray
PyList == [type |-> "list", dtype |-> "object", shape |-> <<>>]

JoinKinds ==
    {PyList}
    \cup {Ndarray("float64", <<>>)}
    \cup { Ndarray("float64", <<r>>) : r \in JoinRows }
    \cup { Ndarray("float64", <<r, c>>) : r \in JoinRows, c \in JoinCols }
    \cup { Ndarray("str", <<r, c>>) : r \in {5}, c \in {2} }
    \cup { Ndarray("float64", <<r, c, d>>) : r \in {5}, c \in {1}, d \in JoinDepths }

\* argument k of the kind given
JoinItem(k, kind) ==
    [type |-> kind.type, dtype |-> kind.dtype, shape |-> kind.shape,
     data |-> IF kind.type = "ndarray"
              THEN [p \in 1..Size(kind.shape) |->
                        [arg |-> k, at |-> Unravel(kind.shape, p - 1)]]
              ELSE <<>>]

JoinInputs ==
    UNION { [1..n -> JoinKinds] : n \in 0..MaxArgs }

Raised(e) == [err |-> e, value |-> None]

Returned(v) == [err |-> "none", value |-> v]

\* the dtype numpy gives the concatenation of two arrays
PromoteTypes(d1, d2) == IF d1 = "str" \/ d2 = "str" THEN "str" ELSE d1

ConcatCellSecondFirst(a, b, ix) ==
    IF ix[2] < b.shape[2]
    THEN ElementAt(b, ix)
    ELSE ElementAt(a, [ix EXCEPT ![2] = ix[2] - b.shape[2]])

\* the element of the concatenation on axis 1 at ix: a's columns, then b's
ConcatCell(a, b, ix) ==
    IF ix[2] < a.shape[2]
    THEN ElementAt(a, ix)
    ELSE ElementAt(b, [ix EXCEPT ![2] = ix[2] - a.shape[2]])

\* np.concatenate((a, b), axis=1)
Concatenate(a, b) ==
    IF Len(a.shape) = 0
    THEN Raised("ValueError")        \* zero-dimensional arrays
    ELSE IF Len(a.shape) < 2
    THEN Raised("AxisError")         \* axis 1 is out of bounds
    ELSE IF Len(b.shape) # Len(a.shape)
    THEN Raised("ValueError")        \* numbers of dimensions differ
    ELSE IF \E ax \in 1..Len(a.shape) : ax # 2 /\ a.shape[ax] # b.shape[ax]
    THEN Raised("ValueError")        \* dimensions off the axis differ
    ELSE LET shape == [a.shape EXCEPT ![2] = a.shape[2] + b.shape[2]]
         IN  Returned(
               [type |-> "ndarray",
                dtype |-> PromoteTypes(a.dtype, b.dtype),
                shape |-> shape,
                data |-> [p \in 1..Size(shape) |->
                            ConcatCell(a, b, Unravel(shape, p - 1))]])

\* type(item) is np.ndarray
IsArray(item) == item.type = "ndarray"

\* item.shape[0] == expected_rows
RowsMatch(item, expected_rows) == item.shape[1] = expected_rows

\* the loop of lines 134 to 139, from the argument at position k on
RECURSIVE JoinLoop(_, _, _, _)
JoinLoop(data, k, acc, expected_rows) ==
    IF k > Len(data) THEN Returned(acc)
    ELSE LET item == data[k]
         IN  IF ~IsArray(item) THEN Raised("AssertionError")
             ELSE IF Len(item.shape) = 0 THEN Raised("IndexError")
             ELSE IF ~RowsMatch(item, expected_rows) THEN Raised("AssertionError")
             ELSE LET joined == Concatenate(acc, item)
                  IN  IF joined.err # "none" THEN joined
                      ELSE JoinLoop(data, k + 1, joined.value, expected_rows)

EnoughArgsOne(data) == Len(data) > 0

\* len(data) > 1
EnoughArgs(data) == Len(data) > 1

ColumnJoinOf(data) ==
    IF ~EnoughArgs(data) THEN Raised("AssertionError")
    ELSE IF ~IsArray(data[1]) THEN Raised("AssertionError")
    ELSE IF Len(data[1].shape) = 0 THEN Raised("IndexError")
    ELSE JoinLoop(data, 2, data[1], data[1].shape[1])

ColumnJoin ==
    /\ pc = "idle"
    /\ \E kinds \in JoinInputs :
        LET data == [k \in 1..Len(kinds) |-> JoinItem(k, kinds[k])]
        IN  /\ call' = "column_join"
            /\ args' = [arrays |-> data]
            /\ result' = ColumnJoinOf(data).value
            /\ err' = ColumnJoinOf(data).err
    /\ pc' = "done"
    /\ UNCHANGED <<idx, out, computed>>

---------------------------------------------------------------------------

Init ==
    /\ pc = "idle"
    /\ call = "none"
    /\ args = None
    /\ idx = 0
    /\ result = None
    /\ err = "none"
    /\ out = <<>>
    /\ computed = {}

Next ==
    \/ Statistics
    \/ ArgStatBegin
    \/ ArgStatProgress
    \/ ArgStatRow
    \/ ArgStatFinish
    \/ FftBegin
    \/ FftProgress
    \/ FftRow
    \/ FftFinish
    \/ Diff1D
    \/ Diff2D
    \/ ColumnJoin

Spec == Init /\ [][Next]_vars

---------------------------------------------------------------------------
(* Properties. *)

Returns(fn) == pc = "done" /\ call = fn /\ err = "none"

Fails(fn) == pc = "done" /\ call = fn /\ err # "none"

\* the matrix fft returns, with or without the frequency axis beside it
FftYs == IF args.return_x THEN result.fft_ys ELSE result

\* how many of the axis points i * SampleRate / n, i in 0..last, are in the band
BandCount(n, low_pass, high_pass, last) ==
    Cardinality({ i \in 0..last :
                    /\ low_pass * n <= i * SampleRate
                    /\ i * SampleRate <= high_pass * n })

FftExample ==
    /\ NCols(args.data) = 32
    /\ args.low_pass = 0
    /\ args.high_pass = 8000

\* C1 as stated: when fft returns a matrix of at least one row, its width is
\* the number of axis points i * 16000 / n_cols, i in 0..floor(n_cols / 2),
\* within [low_pass, high_pass]; for 0, 8000 and 32 columns the width is 17.
C1_WidthCountsInclusiveHalf ==
    (Returns("fft") /\ NRows(args.data) >= 1) =>
        /\ FftYs.shape[2] = BandCount(NCols(args.data), args.low_pass,
                                      args.high_pass, NCols(args.data) \div 2)
        /\ FftExample => FftYs.shape[2] = 17

\* C1 amended: when fft returns a matrix of at least one row, its width is the
\* number of axis points i * 16000 / n_cols, i in 0..floor(n_cols / 2) - 1,
\* within [low_pass, high_pass], every row has that width, and so has the
\* returned axis; for 0, 8000 and 32 columns the axis is 0, 500, ..., 7500 and
\* the width is 16.
C1_WidthCountsFirstHalf ==
    (Returns("fft") /\ NRows(args.data) >= 1) =>
        /\ FftYs.shape[2] = BandCount(NCols(args.data), args.low_pass,
                                      args.high_pass, NCols(args.data) \div 2 - 1)
        /\ Len(FftYs.data) = NRows(args.data) * FftYs.shape[2]
        /\ args.return_x => result.fft_x.shape = <<FftYs.shape[2]>>
        /\ FftExample =>
            /\ FftYs.shape[2] = 16
            /\ args.return_x =>
                 \A k \in 1..16 : result.fft_x.data[k].num =
                                    500 * (k - 1) * result.fft_x.data[k].den

C1_Witness ==
    /\ Returns("fft")
    /\ NRows(args.data) >= 1
    /\ FftExample
    /\ args.return_x
    /\ FftYs.shape = <<NRows(args.data), 16>>

\* C2: a call of fft with high_pass <= low_pass ends at once with the
\* AssertionError of the window check (the spec's InvalidRange): no row is
\* transformed, nothing is written to the progress stream, and neither a
\* matrix nor a frequency axis is returned.
C2_InvalidRangeFailsFirst ==
    (call = "fft" /\ args.high_pass <= args.low_pass) =>
        /\ pc = "done"
        /\ err = "AssertionError"
        /\ result = None
        /\ out = <<>>
        /\ computed = {}

C2_Witness ==
    /\ Fails("fft")
    /\ args.low_pass = 20000
    /\ args.high_pass = 20
    /\ NRows(args.data) >= 1
    /\ NCols(args.data) >= 1
    /\ err = "AssertionError"

Is2DNumeric(item) ==
    item.type = "ndarray" /\ Len(item.shape) = 2 /\ item.dtype = "float64"

RECURSIVE WidthBefore(_, _)
\* the summed widths of the inputs before input k
WidthBefore(data, k) ==
    IF k = 1 THEN 0 ELSE WidthBefore(data, k - 1) + data[k - 1].shape[2]

JoinableMatrices(data) ==
    /\ Len(data) >= 2
    /\ \A k \in 1..Len(data) :
        /\ data[k].type = "ndarray"
        /\ Len(data[k].shape) = 2
        /\ data[k].shape[1] = data[1].shape[1]

\* C4: for two or more 2D inputs of identical row count r, column_join returns
\* a matrix of r rows whose width is the sum of the inputs' widths, in which
\* column j of input k is column (summed widths of inputs 1..k-1) + j, row by
\* row; the inputs still hold their elements.
C4_ColumnsInArgumentOrder ==
    (call = "column_join" /\ pc = "done" /\ JoinableMatrices(args.arrays)) =>
        /\ err = "none"
        /\ result.shape = <<args.arrays[1].shape[1],
                            WidthBefore(args.arrays, Len(args.arrays) + 1)>>
        /\ Len(result.data) = result.shape[1] * result.shape[2]
        /\ \A k \in 1..Len(args.arrays) :
             \A i \in 0..(args.arrays[k].shape[1] - 1) :
                \A j \in 0..(args.arrays[k].shape[2] - 1) :
                    /\ Cell(result, i, WidthBefore(args.arrays, k) + j)
                         = [arg |-> k, at |-> <<i, j>>]
                    /\ Cell(args.arrays[k], i, j) = [arg |-> k, at |-> <<i, j>>]

C4_Witness ==
    /\ Returns("column_join")
    /\ Len(args.arrays) = 3
    /\ JoinableMatrices(args.arrays)
    /\ args.arrays[1].shape = <<5, 3>>
    /\ args.arrays[2].shape = <<5, 2>>
    /\ result.shape = <<5, 8>>

\* the rows of the input of diff along the differenced axis, with the rows of
\* the result beside them
DiffRows ==
    { <<LastAxisRows(args.data)[i], LastAxisRows(result)[i]>> :
        i \in 1..Len(LastAxisRows(args.data)) }

DiffAxisLen == args.data.shape[Len(args.data.shape)]

\* C5: for an input of length n >= 2 along the differenced axis, diff returns
\* an output of length n - 1 along that axis, with value[i] = input[i+1] -
\* input[i] for i in 0..n-2, and the other axis of a 2D input is kept; diff of
\* [1, 3, 6, 10] is [2, 3, 4].
C5_FirstDifference ==
    (call = "diff" /\ pc = "done" /\ DiffAxisLen >= 2) =>
        /\ err = "none"
        /\ result.shape = [args.data.shape EXCEPT
                             ![Len(args.data.shape)] = DiffAxisLen - 1]
        /\ \A pair \in DiffRows :
            /\ Len(pair[2]) = DiffAxisLen - 1
            /\ \A i \in 0..(DiffAxisLen - 2) :
                 At(pair[2], i) = At(pair[1], i + 1) - At(pair[1], i)
        /\ args.data.data = <<1, 3, 6, 10>> => result.data = <<2, 3, 4>>

C5_Witness ==
    /\ Returns("diff")
    /\ args.data.data = <<1, 3, 6, 10>>
    /\ result.data = <<2, 3, 4>>

\* C6 as stated: when the input of diff has length 0 or 1 along the
\* differenced axis, diff fails with an error instead of returning a result.
C6_ShortInputFails ==
    (call = "diff" /\ pc = "done" /\ DiffAxisLen < 2) => err # "none"

\* C6 amended: when the input of diff has length 0 or 1 along the differenced
\* axis, diff does not fail: it returns an array of length 0 along that axis
\* (with the row count of a 2D input kept).
C6_ShortInputGivesEmpty ==
    (call = "diff" /\ pc = "done" /\ DiffAxisLen < 2) =>
        /\ err = "none"
        /\ result.shape = [args.data.shape EXCEPT ![Len(args.data.shape)] = 0]
        /\ \A pair \in DiffRows : pair[2] = <<>>

C6_Witness ==
    /\ Returns("diff")
    /\ args.data.shape = <<2, 1>>
    /\ result.shape = <<2, 0>>

\* the rows of the input of arg_statistics with the row of indices returned
\* for each
ArgRows ==
    { [row |-> Row(args.data, r), ix |-> Row(result, r)] :
        r \in 1..NRows(args.data) }

\* C7: for every row of a Sample Matrix with at least one column, the index in
\* column 0 of arg_statistics, read back in the row, gives the value in
\* column 0 (max) of statistics, and no earlier column of the row holds that
\* value.
C7_ArgMaxRoundTrip ==
    Returns("arg_statistics") =>
        \A r \in 1..NRows(args.data) :
            LET row == Row(args.data, r)
                j == Cell(result, r - 1, 0)
            IN  /\ j \in 0..(Len(row) - 1)
                /\ At(row, j) = Cell(StatisticsOf(args.data), r - 1, 0)
                /\ \A k \in 0..(Len(row) - 1) : At(row, k) <= At(row, j)
                /\ \A k \in 0..(j - 1) : At(row, k) < At(row, j)

\* a row whose maximum occurs twice, first at column 1
C7_Witness ==
    /\ Returns("arg_statistics")
    /\ \E rr \in ArgRows :
        /\ Len(rr.row) = 4
        /\ At(rr.row, 0) < At(rr.row, 1)
        /\ At(rr.row, 2) = At(rr.row, 1)
        /\ At(rr.ix, 0) = 1

CountLess(row, v) == Cardinality({ k \in 1..Len(row) : row[k] < v })

CountLessEq(row, v) == Cardinality({ k \in 1..Len(row) : row[k] <= v })

\* v is the value of 0-based rank k of the row in ascending order
HasRank(row, v, k) == CountLess(row, v) <= k /\ k < CountLessEq(row, v)

\* k is the integer nearest to q / 100 * (n - 1), the even one of two equally near
IsNearestRank(n, q, k) ==
    LET d == IF 100 * k >= q * (n - 1) THEN 100 * k - q * (n - 1)
                                       ELSE q * (n - 1) - 100 * k
    IN  d < 50 \/ (d = 50 /\ k % 2 = 0)

\* v is the nearest-interpolation percentile q of the row
IsPercentileNearest(row, q, v) ==
    \E k \in 0..(Len(row) - 1) : IsNearestRank(Len(row), q, k) /\ HasRank(row, v, k)

\* C8: for every row and every X in 0, 25, 50, 75, the column 3 + X / 25 of
\* arg_statistics holds the smallest column index j at which the row equals
\* its nearest-interpolation percentile pX, a value of the row; the p0 column
\* equals the argmin column.
C8_PercentileIndexFirstMatch ==
    Returns("arg_statistics") =>
        \A rr \in ArgRows :
            /\ \A x \in 1..4 :
                LET j == At(rr.ix, 2 + x)
                IN  /\ j \in 0..(Len(rr.row) - 1)
                    /\ IsPercentileNearest(rr.row, Percentiles[x], At(rr.row, j))
                    /\ \A k \in 0..(j - 1) : At(rr.row, k) # At(rr.row, j)
            /\ At(rr.ix, 3) = At(rr.ix, 1)

\* a row 0, 1, 1, 2 or alike: p50 is the value at columns 1 and 2, and
\* column 1 is reported
C8_Witness ==
    /\ Returns("arg_statistics")
    /\ \E rr \in ArgRows :
        /\ Len(rr.row) = 4
        /\ At(rr.row, 1) = At(rr.row, 2)
        /\ At(rr.row, 0) # At(rr.row, 1)
        /\ At(rr.ix, 5) = 1

\* the position of column j in the stable ascending sort of the row
StableRank(row, j) ==
    Cardinality({ k \in 0..(Len(row) - 1) :
                    \/ At(row, k) < At(row, j)
                    \/ At(row, k) = At(row, j) /\ k < j })

ProgressName == IF call = "fft" THEN "FFT" ELSE "Arg-Stat"

\* what is true of the progress texts whichever computations they are
\* compared with: one text per row in row order, text k reporting k rows
\* done of M and written only after row k - 1 was worked on, then one
\* completed text, the last thing before the return
ProgressInOrder(M) ==
    /\ Len(out) <= M + 1
    /\ \A k \in 1..Len(out) :
        IF k <= M
        THEN /\ out[k] = [fn |-> ProgressName, n |-> k - 1, m |-> M, complete |-> FALSE]
             /\ k > 1 => \E c \in LoopColumns \cup {"fft_y"} : <<k - 2, c>> \in computed
        ELSE /\ out[k] = [fn |-> ProgressName, n |-> M, m |-> M, complete |-> TRUE]
             /\ pc = "done"
    /\ (pc = "done" /\ err = "none") => Len(out) = M + 1
    /\ err # "none" => out = <<>>

\* the matrix fft returns is row by row the masked half spectrum, and the
\* matrix arg_statistics returns is row by row what the row alone decides
ResultIgnoresProgress ==
    /\ Returns("fft") =>
        FftYs = NpArray([i \in 1..NRows(args.data) |->
                    Masked(SubSeq(Spectrum(i - 1, NCols(args.data)), 1,
                                  NCols(args.data) \div 2),
                           PassMask(SubSeq(FftFreq(NCols(args.data)), 1,
                                           NCols(args.data) \div 2),
                                    args.low_pass, args.high_pass))])
    /\ Returns("arg_statistics") =>
        /\ result.shape = <<NRows(args.data), NumArgStats>>
        /\ \A rr \in ArgRows :
            /\ At(rr.ix, 0) = ArgMax(rr.row)
            /\ At(rr.ix, 1) = ArgMin(rr.row)
            /\ HasRank(rr.row, At(rr.row, At(rr.ix, 2)), Len(rr.row) \div 2)
            /\ \A x \in 1..4 :
                 At(rr.ix, 2 + x) = FirstMatch(rr.row, PercentileNearest(rr.row, Percentiles[x]))

\* C10 as stated: in arg_statistics and fft on M rows the progress texts are
\* one per row in row order, the text for row i reporting i of M and written
\* before anything of row i is computed, then one completed text before the
\* return; the result is what the computations alone give.
C10_ProgressPrecedesRow ==
    call \in {"arg_statistics", "fft"} =>
        /\ ProgressInOrder(NRows(args.data))
        /\ \A ic \in computed : Len(out) > ic[1]
        /\ ResultIgnoresProgress

\* C10 amended: as stated, except that the text for row i precedes what the
\* loop computes for row i (the median-rank and percentile index columns of
\* arg_statistics, the spectrum row of fft); the argmax and argmin columns of
\* all rows are computed before the first text.
C10_ProgressPrecedesLoopBody ==
    call \in {"arg_statistics", "fft"} =>
        /\ ProgressInOrder(NRows(args.data))
        /\ \A ic \in computed :
             ic[2] \in LoopColumns \cup {"fft_y"} => Len(out) > ic[1]
        /\ \A ic \in computed :
             ic[2] \in VectorizedColumns => call = "arg_statistics"
        /\ ResultIgnoresProgress

\* arg_statistics returned for two rows: two progress texts and the completed one
C10_Witness ==
    /\ Returns("arg_statistics")
    /\ NRows(args.data) = 2
    /\ Len(out) = 3
    /\ out[1].n = 0 /\ out[2].n = 1 /\ ~out[2].complete
    /\ out[3].n = 2 /\ out[3].complete
    /\ <<1, "argmax">> \in computed
    /\ <<1, "p75">> \in computed

===========================================================================
